---- MODULE Spec2Model ----
(***************************************************************************)
(* Model of src/renderer/store/matchmaking.store.ts: the matchmaking       *)
(* session store, its server event handlers, its user commands, the        *)
(* playlist refresh with its readiness records, and the download of a      *)
(* battle's content.                                                       *)
(*                                                                         *)
(* One step of the model is one task of the JavaScript event loop: a       *)
(* handler or a continuation runs from its start to its next await on an   *)
(* external promise, together with the microtasks it leaves behind (the    *)
(* continuation of an await on an already settled promise).                *)
(*                                                                         *)
(* Progress fractions are counted in hundredths: 1 is 100, 0.08 is 8.      *)
(*                                                                         *)
(* testAssetDownload is the flag of line 27: a build has it true (the      *)
(* simulated downloads) or false (the real ones), so Init chooses it.      *)
(* window.downloads.onDownload*Progress(listener) is taken to put listener *)
(* in place of the one before, which is what the cleanup of lines 211-215  *)
(* relies on. A download reports progress while it is awaited.             *)
(* Of the alerts, those of downloadBattleContent are kept, in the episode  *)
(* that gave them. onQueueUpdateEvent and onFoundUpdateEvent only write    *)
(* playersQueued and playersReady, which nothing else reads; they and      *)
(* isDrawerOpen are left out.                                              *)
(*                                                                         *)
(* inventoryRead and sinceCancel are history variables: no step reads      *)
(* them, they keep what the properties about the readiness records and     *)
(* about the cancel command speak of.                                      *)
(*                                                                         *)
(* Spec is the whole store. Its state space is the product of the session, *)
(* the downloads and the refreshes, so the properties are checked under    *)
(* SpecSession, SpecQueue, SpecRefresh and SpecCommands, whose steps are   *)
(* steps of Spec.                                                          *)
(***************************************************************************)
EXTENDS Integers, Sequences, FiniteSets, TLC

\* ------------------------------------------------------------------ bounds
\* Calls of downloadBattleContent in one behaviour.
MaxEpisodes == 2
\* Calls of sendListRequest in one behaviour.
MaxListCalls == 2
\* Requests of one kind (queue, ready, cancel) awaiting their answer at once.
MaxPending == 1
\* Calls of initializeMatchmakingStore in one behaviour.
MaxInitCalls == 2

\* --------------------------------------------------------------- constants
MatchmakingStatus == {"Idle", "JoinRequested", "Searching", "MatchFound", "MatchAccepted"}

\* currentBattle: undefined
NoBattle == "undefined"
\* The literal battle sendQueueRequest passes (engine, game and map names "").
TestBattle == "test"
\* Assignments the server can put in user/self.
ServerBattles == {"B1"}

\* The asset names of a battle: battle.map.springName, battle.engine.version,
\* battle.game.springName.
BattleAssets(b) ==
    IF b = TestBattle THEN [map |-> "", engine |-> "", game |-> ""]
    ELSE [map |-> "M1", engine |-> "E1", game |-> "G1"]

AssetTypes == {"map", "engine", "game"}
\* DownloadInfo.progress of the progress events.
ReportValues == {25, 75}

ZeroProgress == [map |-> 0, engine |-> 0, game |-> 0]
FullProgress == [map |-> 100, engine |-> 100, game |-> 100]

Min(a, b) == IF a < b THEN a ELSE b

\* The steps of the simulated download, per 200 ms tick.
MapStep == 8
EngineStep == 12
GameStep == 6

SuccessText == "Battle content downloaded. Ready to launch!"
FailureText == "Failed to download required content for battle"

VARIABLES
    \* matchmakingStore
    isInitialized, status, errorMessage, selectedQueue, playlists,
    isLoadingQueues, queueError, downloadsRequired,
    currentBattle, isDownloadingContent, downloadProgress,
    \* the build's testAssetDownload flag
    testAssetDownload,
    \* one record per call of downloadBattleContent, in call order
    episodes,
    \* the episode whose progress listeners window.downloads holds (0: none)
    listenerOwner,
    \* one record per call of sendListRequest, in call order
    listCalls,
    \* requests awaiting their answer
    pendingQueue, pendingReady, pendingCancel,
    \* times initializeMatchmakingStore registered the event handlers
    handlersRegistered,
    \* history: per playlist, what the inventory answered to the last callback
    \* of sendListRequest that asked for it (Answered(inv) or Rejected)
    inventoryRead,
    \* history: sendCancelRequest has run, and no user command and no server
    \* event handler has run since
    sinceCancel

vars == <<isInitialized, status, errorMessage, selectedQueue, playlists,
          isLoadingQueues, queueError, downloadsRequired,
          currentBattle, isDownloadingContent, downloadProgress,
          testAssetDownload, episodes, listenerOwner, listCalls,
          pendingQueue, pendingReady, pendingCancel,
          handlersRegistered, inventoryRead, sinceCancel>>

\* ------------------------------------------------- playlists and readiness
\* The playlists the server can list: id, and the acceptable maps, engines and
\* games in the server's order.
PlaylistIds == {"1v1", "2v2", "ffa"}
PlaylistDef(id) ==
    IF id = "1v1" THEN [maps |-> <<"M1">>, engines |-> <<"E1">>, games |-> <<"G1">>]
    ELSE IF id = "2v2" THEN [maps |-> <<"M1", "M2">>, engines |-> <<"E2", "E1">>, games |-> <<"G1">>]
    ELSE [maps |-> <<>>, engines |-> <<>>, games |-> <<>>]

\* response.data.playlists of matchmaking/list
ListResponses == {<<>>, <<"1v1">>, <<"1v1", "2v2">>, <<"2v2", "ffa">>}

\* What the local inventory answers when it is asked: db.maps.bulkGet per map
\* name, enginesStore.availableEngineVersions, gameStore.availableGameVersions.
Inventories ==
    { [db |-> [m \in {"M1", "M2"} |-> "installed"], engines |-> {"E1", "E2"}, games |-> {"G1"}],
      [db |-> [m \in {"M1", "M2"} |-> IF m = "M1" THEN "installed" ELSE "notInstalled"],
       engines |-> {"E1"}, games |-> {}],
      [db |-> [m \in {"M1", "M2"} |-> "undefined"], engines |-> {}, games |-> {}] }

\* The inventory of a machine that has every asset.
EverythingInstalled ==
    [db |-> [m \in {"M1", "M2"} |-> "installed"], engines |-> {"E1", "E2"}, games |-> {"G1"}]

SeqToSet(s) == {s[i] : i \in 1..Len(s)}

checkIfAnyMapsAreNeeded(maps, dbMaps) ==
    IF Len(maps) = 0 THEN FALSE
    ELSE \E i \in 1..Len(maps) : dbMaps[maps[i]] # "installed"

checkIfEngineIsNeeded(engines, installedVersions) ==
    IF Len(engines) = 0 THEN FALSE
    ELSE ~(\E i \in 1..Len(engines) : engines[i] \in installedVersions)

checkIfGameIsNeeded(games, availableGameVersions) ==
    IF Len(games) = 0 THEN FALSE
    ELSE ~(\E i \in 1..Len(games) : games[i] \in availableGameVersions)

\* The record sendListRequest writes for one playlist.
ReadinessRecord(id, inv) ==
    LET q == PlaylistDef(id) IN
    [mapsNeeded |-> checkIfAnyMapsAreNeeded(q.maps, inv.db),
     engineNeeded |-> checkIfEngineIsNeeded(q.engines, inv.engines),
     gameNeeded |-> checkIfGameIsNeeded(q.games, inv.games),
     engineVersion |-> IF Len(q.engines) > 0 THEN q.engines[1] ELSE "",
     gameVersion |-> IF Len(q.games) > 0 THEN q.games[1] ELSE ""]

\* downloadsRequired[id] = rec
PutRecord(f, id, rec) ==
    [k \in (DOMAIN f) \cup {id} |-> IF k = id THEN rec ELSE f[k]]

\* downloadsRequired = {}
NoRecords == [k \in {} |-> FALSE]

\* What the inventory did with a query: it answered from inv, or it failed
\* (db.maps.bulkGet rejected).
Answered(inv) == [answered |-> TRUE, inv |-> inv]
Rejected == [answered |-> FALSE]


\* ------------------------------------------------------------------- Init
Init ==
    /\ isInitialized = FALSE
    /\ status = "Idle"
    /\ errorMessage = "null"
    /\ selectedQueue = "1v1"
    /\ playlists = <<>>
    /\ isLoadingQueues = FALSE
    /\ queueError = "undefined"
    /\ downloadsRequired = NoRecords
    /\ currentBattle = NoBattle
    /\ isDownloadingContent = FALSE
    /\ downloadProgress = ZeroProgress
    /\ testAssetDownload \in BOOLEAN
    /\ episodes = <<>>
    /\ listenerOwner = 0
    /\ listCalls = <<>>
    /\ pendingQueue = 0
    /\ pendingReady = 0
    /\ pendingCancel = 0
    /\ handlersRegistered = 0
    /\ inventoryRead = NoRecords
    /\ sinceCancel = FALSE

\* ------------------------------------------------ the download of a battle
Active(ep) == ep.pc # "done"

NewEpisode(battle, origin) ==
    [battle |-> battle,
     \* the caller: "onUserSelfEvent" or "sendQueueRequest"
     origin |-> origin,
     \* "sim": the interval runs; "awaitMap", "awaitEngine", "awaitGame": the
     \* real path awaits that download; "done": the function has returned
     pc |-> IF testAssetDownload THEN "sim" ELSE "awaitMap",
     \* simulateProgress's mapProgress, engineProgress, gameProgress
     mapProgress |-> 0, engineProgress |-> 0, gameProgress |-> 0,
     \* the download that rejected, the alerts the episode gave
     \* ("success": SuccessText, "failure": FailureText), and downloadProgress
     \* as it was when it gave one
     failed |-> "none", alerts |-> {}, alertProgress |-> ZeroProgress]

\* downloadBattleContent up to its first await: lines 136-138, and on the real
\* path the registration of the progress listeners and the call of downloadMap.
downloadBattleContent(battle, origin) ==
    /\ currentBattle' = battle
    /\ isDownloadingContent' = TRUE
    /\ downloadProgress' = ZeroProgress
    /\ episodes' = Append(episodes, NewEpisode(battle, origin))
    /\ listenerOwner' = IF testAssetDownload THEN listenerOwner ELSE Len(episodes) + 1

\* The finally of downloadBattleContent: line 184 on the simulated path, lines
\* 235-236 on the real one, where the cleanup puts empty listeners in place of
\* whatever listeners window.downloads holds.
DownloadFinally_KeepsFlag(real) ==
    /\ isDownloadingContent' = isDownloadingContent
    /\ listenerOwner' = IF real THEN 0 ELSE listenerOwner

DownloadFinally(real) ==
    /\ isDownloadingContent' = FALSE
    /\ listenerOwner' = IF real THEN 0 ELSE listenerOwner

\* The episode after the try has ended well: lines 178-179 and 228-229.
DownloadSucceeded(ep, progress) ==
    [ep EXCEPT !.pc = "done", !.alerts = @ \cup {"success"}, !.alertProgress = progress]

\* The episode after the catch, the download of type having rejected: lines
\* 230-232.
DownloadCatch_SuccessAlert(ep, type) ==
    [ep EXCEPT !.pc = "done", !.failed = type, !.alerts = @ \cup {"success"},
               !.alertProgress = downloadProgress]

DownloadCatch(ep, type) ==
    [ep EXCEPT !.pc = "done", !.failed = type, !.alerts = @ \cup {"failure"},
               !.alertProgress = downloadProgress]

\* if (mapProgress === 1 && engineProgress === 1 && gameProgress === 1)
AllComplete(m, e, g) == m = 100 /\ e = 100 /\ g = 100

\* One tick of simulateProgress's interval; on the last one the promise
\* resolves and the function runs to its end (alert, finally).
SimulateTick(i) ==
    /\ i \in DOMAIN episodes
    /\ episodes[i].pc = "sim"
    /\ LET m == Min(episodes[i].mapProgress + MapStep, 100)
           e == Min(episodes[i].engineProgress + EngineStep, 100)
           g == Min(episodes[i].gameProgress + GameStep, 100)
           p == [map |-> m, engine |-> e, game |-> g]
           ep == [episodes[i] EXCEPT !.mapProgress = m, !.engineProgress = e,
                                     !.gameProgress = g]
       IN /\ downloadProgress' = p
          /\ IF AllComplete(m, e, g)
             THEN /\ episodes' = [episodes EXCEPT ![i] = DownloadSucceeded(ep, p)]
                  /\ DownloadFinally(FALSE)
             ELSE /\ episodes' = [episodes EXCEPT ![i] = ep]
                  /\ UNCHANGED <<isDownloadingContent, listenerOwner>>
    /\ UNCHANGED <<isInitialized, status, errorMessage, selectedQueue, playlists,
                   isLoadingQueues, queueError, downloadsRequired, currentBattle,
                   testAssetDownload, listCalls,
                   pendingQueue, pendingReady, pendingCancel, handlersRegistered>>
    /\ UNCHANGED <<inventoryRead, sinceCancel>>

\* The asset a real-path episode awaits.
Awaited(pc) == IF pc = "awaitMap" THEN "map" ELSE IF pc = "awaitEngine" THEN "engine" ELSE "game"

\* The download episode j awaits reports progress, and the listener made by
\* createProgressListener for that asset type receives it: downloadInfo.name
\* is the name episode j asked for, the listener compares it with the name of
\* its own episode's battle.
DownloadProgressEvent(j, progress) ==
    /\ j \in DOMAIN episodes
    /\ episodes[j].pc \in {"awaitMap", "awaitEngine", "awaitGame"}
    /\ listenerOwner # 0
    /\ LET type == Awaited(episodes[j].pc)
           name == BattleAssets(episodes[j].battle)[type]
       IN downloadProgress' =
            IF name = BattleAssets(episodes[listenerOwner].battle)[type]
            THEN [downloadProgress EXCEPT ![type] = progress]
            ELSE downloadProgress
    /\ UNCHANGED <<isInitialized, status, errorMessage, selectedQueue, playlists,
                   isLoadingQueues, queueError, downloadsRequired, currentBattle,
                   isDownloadingContent, testAssetDownload, episodes, listenerOwner,
                   listCalls, pendingQueue, pendingReady, pendingCancel,
                   handlersRegistered>>
    /\ UNCHANGED <<inventoryRead, sinceCancel>>

\* downloadMap, downloadEngine or downloadGame resolves: lines 219-229, and
\* after the last one the finally of 233-237.
DownloadResolved(i) ==
    /\ i \in DOMAIN episodes
    /\ episodes[i].pc \in {"awaitMap", "awaitEngine", "awaitGame"}
    /\ LET type == Awaited(episodes[i].pc)
           p == [downloadProgress EXCEPT ![type] = 100]
       IN /\ downloadProgress' = p
          /\ IF type = "game"
             THEN /\ episodes' = [episodes EXCEPT ![i] = DownloadSucceeded(episodes[i], p)]
                  /\ DownloadFinally(TRUE)
             ELSE /\ episodes' = [episodes EXCEPT
                                      ![i].pc = IF type = "map" THEN "awaitEngine" ELSE "awaitGame"]
                  /\ UNCHANGED <<listenerOwner, isDownloadingContent>>
    /\ UNCHANGED <<isInitialized, status, errorMessage, selectedQueue, playlists,
                   isLoadingQueues, queueError, downloadsRequired, currentBattle,
                   testAssetDownload, listCalls,
                   pendingQueue, pendingReady, pendingCancel, handlersRegistered>>
    /\ UNCHANGED <<inventoryRead, sinceCancel>>

\* The catch of downloadBattleContent, were it to take the session back to
\* Idle.
DownloadRejected_ToIdle(i) ==
    /\ i \in DOMAIN episodes
    /\ episodes[i].pc \in {"awaitMap", "awaitEngine", "awaitGame"}
    /\ episodes' = [episodes EXCEPT ![i] = DownloadCatch(episodes[i], Awaited(episodes[i].pc))]
    /\ DownloadFinally(TRUE)
    /\ status' = "Idle"
    /\ UNCHANGED <<isInitialized, errorMessage, selectedQueue, playlists,
                   isLoadingQueues, queueError, downloadsRequired, currentBattle,
                   downloadProgress, testAssetDownload, listCalls,
                   pendingQueue, pendingReady, pendingCancel, handlersRegistered>>
    /\ UNCHANGED <<inventoryRead, sinceCancel>>

\* downloadMap, downloadEngine or downloadGame rejects: the catch of 230-232
\* and the finally of 233-237.
DownloadRejected(i) ==
    /\ i \in DOMAIN episodes
    /\ episodes[i].pc \in {"awaitMap", "awaitEngine", "awaitGame"}
    /\ episodes' = [episodes EXCEPT ![i] = DownloadCatch(episodes[i], Awaited(episodes[i].pc))]
    /\ DownloadFinally(TRUE)
    /\ UNCHANGED <<isInitialized, status, errorMessage, selectedQueue, playlists,
                   isLoadingQueues, queueError, downloadsRequired, currentBattle,
                   downloadProgress, testAssetDownload, listCalls,
                   pendingQueue, pendingReady, pendingCancel, handlersRegistered>>
    /\ UNCHANGED <<inventoryRead, sinceCancel>>

\* ------------------------------------------------------- the server events
onLostEvent ==
    /\ handlersRegistered > 0
    /\ status' = "Searching"
    /\ UNCHANGED <<isInitialized, errorMessage, selectedQueue, playlists,
                   isLoadingQueues, queueError, downloadsRequired, currentBattle,
                   isDownloadingContent, downloadProgress, testAssetDownload, episodes,
                   listenerOwner, listCalls, pendingQueue, pendingReady, pendingCancel,
                   handlersRegistered>>
    /\ sinceCancel' = FALSE
    /\ UNCHANGED inventoryRead

onCancelledEvent ==
    /\ handlersRegistered > 0
    /\ status' = "Idle"
    /\ UNCHANGED <<isInitialized, errorMessage, selectedQueue, playlists,
                   isLoadingQueues, queueError, downloadsRequired, currentBattle,
                   isDownloadingContent, downloadProgress, testAssetDownload, episodes,
                   listenerOwner, listCalls, pendingQueue, pendingReady, pendingCancel,
                   handlersRegistered>>
    /\ sinceCancel' = FALSE
    /\ UNCHANGED inventoryRead

onFoundEvent ==
    /\ handlersRegistered > 0
    /\ status' = "MatchFound"
    /\ UNCHANGED <<isInitialized, errorMessage, selectedQueue, playlists,
                   isLoadingQueues, queueError, downloadsRequired, currentBattle,
                   isDownloadingContent, downloadProgress, testAssetDownload, episodes,
                   listenerOwner, listCalls, pendingQueue, pendingReady, pendingCancel,
                   handlersRegistered>>
    /\ sinceCancel' = FALSE
    /\ UNCHANGED inventoryRead

onQueuesJoinedEvent ==
    /\ handlersRegistered > 0
    /\ status' = "Searching"
    /\ UNCHANGED <<isInitialized, errorMessage, selectedQueue, playlists,
                   isLoadingQueues, queueError, downloadsRequired, currentBattle,
                   isDownloadingContent, downloadProgress, testAssetDownload, episodes,
                   listenerOwner, listCalls, pendingQueue, pendingReady, pendingCancel,
                   handlersRegistered>>
    /\ sinceCancel' = FALSE
    /\ UNCHANGED inventoryRead

\* data.user.currentBattle is battle (NoBattle: the event carries none).
onUserSelfEvent(battle) ==
    /\ handlersRegistered > 0
    /\ IF battle # NoBattle /\ status = "MatchAccepted"
       THEN /\ Len(episodes) < MaxEpisodes
            /\ downloadBattleContent(battle, "onUserSelfEvent")
       ELSE UNCHANGED <<currentBattle, isDownloadingContent, downloadProgress,
                        episodes, listenerOwner>>
    /\ UNCHANGED <<isInitialized, status, errorMessage, selectedQueue, playlists,
                   isLoadingQueues, queueError, downloadsRequired,
                   testAssetDownload, listCalls, pendingQueue, pendingReady,
                   pendingCancel, handlersRegistered>>
    /\ sinceCancel' = FALSE
    /\ UNCHANGED inventoryRead

\* ---------------------------------------------------- the playlist refresh
\* A call of sendListRequest: who called it, where it is ("awaitList": the
\* matchmaking/list request is out; "resolving": the callbacks of Promise.all
\* run; "done"), the playlists whose callback awaits db.maps.bulkGet, and
\* whether Promise.all has settled (the function has returned).
NewListCall(caller) ==
    [caller |-> caller, phase |-> "awaitList", pending |-> {}, settled |-> FALSE]
DoneCall == [caller |-> "-", phase |-> "done", pending |-> {}, settled |-> TRUE]

\* sendListRequest up to its await of the request: lines 241-244.
sendListRequest(caller) ==
    /\ isLoadingQueues' = TRUE
    /\ queueError' = "undefined"
    /\ listCalls' = Append(listCalls, NewListCall(caller))

\* What follows the await of sendListRequest in its caller: line 390.
AfterListRequest(caller) ==
    isInitialized' = IF caller = "init" THEN TRUE ELSE isInitialized

\* matchmaking.sendListRequest called from outside the store.
SendListRequest ==
    /\ Len(listCalls) < MaxListCalls
    /\ sendListRequest("user")
    /\ UNCHANGED <<isInitialized, status, errorMessage, selectedQueue, playlists,
                   downloadsRequired, currentBattle, isDownloadingContent,
                   downloadProgress, testAssetDownload, episodes, listenerOwner,
                   pendingQueue, pendingReady, pendingCancel, handlersRegistered>>
    /\ sinceCancel' = FALSE
    /\ UNCHANGED inventoryRead

\* The list request resolves: lines 245-268. The callback of a playlist with
\* no maps awaits only settled promises and writes its record in this step; the
\* callback of a playlist with maps awaits db.maps.bulkGet.
ListRequestResolved(c, list, inv) ==
    /\ c \in DOMAIN listCalls
    /\ listCalls[c].phase = "awaitList"
    /\ LET ids == SeqToSet(list)
           immediate == {id \in ids : Len(PlaylistDef(id).maps) = 0}
           pending == ids \ immediate
       IN /\ playlists' = list
          /\ selectedQueue' = IF Len(list) > 0 /\ selectedQueue \notin ids
                              THEN list[1] ELSE selectedQueue
          /\ downloadsRequired' = [id \in immediate |-> ReadinessRecord(id, inv)]
          /\ IF pending = {}
             THEN /\ isLoadingQueues' = FALSE
                  /\ listCalls' = [listCalls EXCEPT ![c] = DoneCall]
                  /\ AfterListRequest(listCalls[c].caller)
             ELSE /\ listCalls' = [listCalls EXCEPT ![c].phase = "resolving",
                                                    ![c].pending = pending]
                  /\ UNCHANGED <<isLoadingQueues, isInitialized>>
    /\ UNCHANGED <<status, errorMessage, queueError, currentBattle,
                   isDownloadingContent, downloadProgress, testAssetDownload, episodes,
                   listenerOwner, pendingQueue, pendingReady, pendingCancel,
                   handlersRegistered>>
    /\ inventoryRead' = [id \in {x \in SeqToSet(list) : Len(PlaylistDef(x).maps) = 0} |-> Answered(inv)]
    /\ UNCHANGED sinceCancel

\* The catch and the finally of sendListRequest: lines 270-276.
ListCatch ==
    /\ queueError' = "Failed to retrieve available queues"
    /\ isLoadingQueues' = FALSE

\* The list request rejects.
ListRequestRejected(c) ==
    /\ c \in DOMAIN listCalls
    /\ listCalls[c].phase = "awaitList"
    /\ ListCatch
    /\ listCalls' = [listCalls EXCEPT ![c] = DoneCall]
    /\ AfterListRequest(listCalls[c].caller)
    /\ UNCHANGED <<status, errorMessage, selectedQueue, playlists, downloadsRequired,
                   currentBattle, isDownloadingContent, downloadProgress,
                   testAssetDownload, episodes, listenerOwner,
                   pendingQueue, pendingReady, pendingCancel, handlersRegistered>>
    /\ UNCHANGED <<inventoryRead, sinceCancel>>

\* The call's record once the callback of playlist id has ended.
CallbackEnded(call, id) ==
    IF call.pending = {id} THEN DoneCall
    ELSE [call EXCEPT !.pending = call.pending \ {id}, !.settled = TRUE]

\* db.maps.bulkGet answers the callback of playlist id: lines 256-266; when it
\* is the last callback, Promise.all resolves and the finally runs.
MapsQueryResolved(c, id, inv) ==
    /\ c \in DOMAIN listCalls
    /\ id \in listCalls[c].pending
    /\ downloadsRequired' = PutRecord(downloadsRequired, id, ReadinessRecord(id, inv))
    /\ IF listCalls[c].pending = {id} /\ ~listCalls[c].settled
       THEN /\ isLoadingQueues' = FALSE
            /\ listCalls' = [listCalls EXCEPT ![c] = DoneCall]
            /\ AfterListRequest(listCalls[c].caller)
       ELSE /\ listCalls' = [listCalls EXCEPT ![c] =
                                IF listCalls[c].pending = {id} THEN DoneCall
                                ELSE [listCalls[c] EXCEPT !.pending = @ \ {id}]]
            /\ UNCHANGED <<isLoadingQueues, isInitialized>>
    /\ UNCHANGED <<status, errorMessage, selectedQueue, playlists, queueError,
                   currentBattle, isDownloadingContent, downloadProgress,
                   testAssetDownload, episodes, listenerOwner,
                   pendingQueue, pendingReady, pendingCancel, handlersRegistered>>
    /\ inventoryRead' = PutRecord(inventoryRead, id, Answered(inv))
    /\ UNCHANGED sinceCancel

\* db.maps.bulkGet rejects in the callback of playlist id: the first rejection
\* rejects Promise.all, and the catch and the finally run; the other callbacks
\* go on.
MapsQueryRejected(c, id) ==
    /\ c \in DOMAIN listCalls
    /\ id \in listCalls[c].pending
    /\ listCalls' = [listCalls EXCEPT ![c] = CallbackEnded(listCalls[c], id)]
    /\ IF ~listCalls[c].settled
       THEN /\ ListCatch
            /\ AfterListRequest(listCalls[c].caller)
       ELSE UNCHANGED <<queueError, isLoadingQueues, isInitialized>>
    /\ UNCHANGED <<status, errorMessage, selectedQueue, playlists, downloadsRequired,
                   currentBattle, isDownloadingContent, downloadProgress,
                   testAssetDownload, episodes, listenerOwner,
                   pendingQueue, pendingReady, pendingCancel, handlersRegistered>>
    /\ inventoryRead' = PutRecord(inventoryRead, id, Rejected)
    /\ UNCHANGED sinceCancel

\* ------------------------------------------------------- the user commands
\* sendQueueRequest without the return of line 312: it moves to JoinRequested
\* also when the selected queue has no record.
SendQueueRequest_JoinsAnyway ==
    \/ /\ selectedQueue \notin DOMAIN downloadsRequired
       /\ Len(listCalls) < MaxListCalls
       /\ sendListRequest("queue")
       /\ status' = "JoinRequested"
       /\ UNCHANGED <<isInitialized, errorMessage, selectedQueue, playlists,
                      downloadsRequired, currentBattle, isDownloadingContent,
                      downloadProgress, testAssetDownload, episodes, listenerOwner,
                      pendingQueue, pendingReady, pendingCancel, handlersRegistered,
                      inventoryRead>>
       /\ sinceCancel' = FALSE
    \/ /\ selectedQueue \in DOMAIN downloadsRequired
       /\ Len(episodes) < MaxEpisodes
       /\ pendingQueue < MaxPending
       /\ downloadBattleContent(TestBattle, "sendQueueRequest")
       /\ status' = "JoinRequested"
       /\ errorMessage' = "null"
       /\ pendingQueue' = pendingQueue + 1
       /\ UNCHANGED <<isInitialized, selectedQueue, playlists, isLoadingQueues,
                      queueError, downloadsRequired, testAssetDownload, listCalls,
                      pendingReady, pendingCancel, handlersRegistered, inventoryRead>>
       /\ sinceCancel' = FALSE

\* sendQueueRequest up to its await: lines 309-333.
SendQueueRequest ==
    \/ /\ selectedQueue \notin DOMAIN downloadsRequired
       /\ Len(listCalls) < MaxListCalls
       /\ sendListRequest("queue")
       /\ UNCHANGED <<isInitialized, status, errorMessage, selectedQueue, playlists,
                      downloadsRequired, currentBattle, isDownloadingContent,
                      downloadProgress, testAssetDownload, episodes, listenerOwner,
                      pendingQueue, pendingReady, pendingCancel, handlersRegistered,
                      inventoryRead>>
       /\ sinceCancel' = FALSE
    \/ /\ selectedQueue \in DOMAIN downloadsRequired
       /\ Len(episodes) < MaxEpisodes
       /\ pendingQueue < MaxPending
       /\ downloadBattleContent(TestBattle, "sendQueueRequest")
       /\ status' = "JoinRequested"
       /\ errorMessage' = "null"
       /\ pendingQueue' = pendingQueue + 1
       /\ UNCHANGED <<isInitialized, selectedQueue, playlists, isLoadingQueues,
                      queueError, downloadsRequired, testAssetDownload, listCalls,
                      pendingReady, pendingCancel, handlersRegistered, inventoryRead>>
       /\ sinceCancel' = FALSE

\* The matchmaking/queue request resolves (line 335) or rejects (336-340).
QueueRequestResolved ==
    /\ pendingQueue > 0
    /\ pendingQueue' = pendingQueue - 1
    /\ status' = "Searching"
    /\ UNCHANGED <<isInitialized, errorMessage, selectedQueue, playlists,
                   isLoadingQueues, queueError, downloadsRequired, currentBattle,
                   isDownloadingContent, downloadProgress, testAssetDownload, episodes,
                   listenerOwner, listCalls, pendingReady, pendingCancel,
                   handlersRegistered>>
    /\ UNCHANGED <<inventoryRead, sinceCancel>>

QueueRequestRejected ==
    /\ pendingQueue > 0
    /\ pendingQueue' = pendingQueue - 1
    /\ errorMessage' = "Error with matchmaking/queue"
    /\ status' = "Idle"
    /\ UNCHANGED <<isInitialized, selectedQueue, playlists,
                   isLoadingQueues, queueError, downloadsRequired, currentBattle,
                   isDownloadingContent, downloadProgress, testAssetDownload, episodes,
                   listenerOwner, listCalls, pendingReady, pendingCancel,
                   handlersRegistered>>
    /\ UNCHANGED <<inventoryRead, sinceCancel>>

\* sendCancelRequest up to its await: lines 345-347.
SendCancelRequest ==
    /\ pendingCancel < MaxPending
    /\ status' = "Idle"
    /\ pendingCancel' = pendingCancel + 1
    /\ UNCHANGED <<isInitialized, errorMessage, selectedQueue, playlists,
                   isLoadingQueues, queueError, downloadsRequired, currentBattle,
                   isDownloadingContent, downloadProgress, testAssetDownload, episodes,
                   listenerOwner, listCalls, pendingQueue, pendingReady,
                   handlersRegistered>>
    /\ sinceCancel' = TRUE
    /\ UNCHANGED inventoryRead

\* The matchmaking/cancel request resolves (line 348) or rejects (349-353).
CancelRequestResolved ==
    /\ pendingCancel > 0
    /\ pendingCancel' = pendingCancel - 1
    /\ UNCHANGED <<isInitialized, status, errorMessage, selectedQueue, playlists,
                   isLoadingQueues, queueError, downloadsRequired, currentBattle,
                   isDownloadingContent, downloadProgress, testAssetDownload, episodes,
                   listenerOwner, listCalls, pendingQueue, pendingReady,
                   handlersRegistered>>
    /\ UNCHANGED <<inventoryRead, sinceCancel>>

\* The catch of sendCancelRequest, were it to write status.
CancelRequestRejected_Rollback ==
    /\ pendingCancel > 0
    /\ pendingCancel' = pendingCancel - 1
    /\ errorMessage' = "Error with matchmaking/cancel"
    /\ status' = "Searching"
    /\ UNCHANGED <<isInitialized, selectedQueue, playlists,
                   isLoadingQueues, queueError, downloadsRequired, currentBattle,
                   isDownloadingContent, downloadProgress, testAssetDownload, episodes,
                   listenerOwner, listCalls, pendingQueue, pendingReady,
                   handlersRegistered>>
    /\ UNCHANGED <<inventoryRead, sinceCancel>>

CancelRequestRejected ==
    /\ pendingCancel > 0
    /\ pendingCancel' = pendingCancel - 1
    /\ errorMessage' = "Error with matchmaking/cancel"
    /\ UNCHANGED <<isInitialized, status, selectedQueue, playlists,
                   isLoadingQueues, queueError, downloadsRequired, currentBattle,
                   isDownloadingContent, downloadProgress, testAssetDownload, episodes,
                   listenerOwner, listCalls, pendingQueue, pendingReady,
                   handlersRegistered>>
    /\ UNCHANGED <<inventoryRead, sinceCancel>>

\* sendReadyRequest up to its await: lines 357-359.
SendReadyRequest ==
    /\ pendingReady < MaxPending
    /\ status' = "MatchAccepted"
    /\ pendingReady' = pendingReady + 1
    /\ UNCHANGED <<isInitialized, errorMessage, selectedQueue, playlists,
                   isLoadingQueues, queueError, downloadsRequired, currentBattle,
                   isDownloadingContent, downloadProgress, testAssetDownload, episodes,
                   listenerOwner, listCalls, pendingQueue, pendingCancel,
                   handlersRegistered>>
    /\ sinceCancel' = FALSE
    /\ UNCHANGED inventoryRead

\* The matchmaking/ready request resolves (line 360) or rejects (361-366).
ReadyRequestResolved ==
    /\ pendingReady > 0
    /\ pendingReady' = pendingReady - 1
    /\ UNCHANGED <<isInitialized, status, errorMessage, selectedQueue, playlists,
                   isLoadingQueues, queueError, downloadsRequired, currentBattle,
                   isDownloadingContent, downloadProgress, testAssetDownload, episodes,
                   listenerOwner, listCalls, pendingQueue, pendingCancel,
                   handlersRegistered>>
    /\ UNCHANGED <<inventoryRead, sinceCancel>>

\* The catch of sendReadyRequest without line 362.
ReadyRequestRejected_NoRollback ==
    /\ pendingReady > 0
    /\ pendingReady' = pendingReady - 1
    /\ status' = status
    /\ errorMessage' = "Error with matchmaking/ready"
    /\ UNCHANGED <<isInitialized, selectedQueue, playlists,
                   isLoadingQueues, queueError, downloadsRequired, currentBattle,
                   isDownloadingContent, downloadProgress, testAssetDownload, episodes,
                   listenerOwner, listCalls, pendingQueue, pendingCancel,
                   handlersRegistered>>
    /\ UNCHANGED <<inventoryRead, sinceCancel>>

ReadyRequestRejected ==
    /\ pendingReady > 0
    /\ pendingReady' = pendingReady - 1
    /\ status' = "Idle"
    /\ errorMessage' = "Error with matchmaking/ready"
    /\ UNCHANGED <<isInitialized, selectedQueue, playlists,
                   isLoadingQueues, queueError, downloadsRequired, currentBattle,
                   isDownloadingContent, downloadProgress, testAssetDownload, episodes,
                   listenerOwner, listCalls, pendingQueue, pendingCancel,
                   handlersRegistered>>
    /\ UNCHANGED <<inventoryRead, sinceCancel>>

\* initializeMatchmakingStore up to its await: lines 370-388; connected is
\* tachyonStore.isConnected.
initializeMatchmakingStore(connected) ==
    /\ ~isInitialized
    /\ handlersRegistered < MaxInitCalls
    /\ handlersRegistered' = handlersRegistered + 1
    /\ IF connected
       THEN /\ Len(listCalls) < MaxListCalls
            /\ sendListRequest("init")
            /\ UNCHANGED isInitialized
       ELSE /\ isInitialized' = TRUE
            /\ UNCHANGED <<isLoadingQueues, queueError, listCalls>>
    /\ UNCHANGED <<status, errorMessage, selectedQueue, playlists, downloadsRequired,
                   currentBattle, isDownloadingContent, downloadProgress,
                   testAssetDownload, episodes, listenerOwner,
                   pendingQueue, pendingReady, pendingCancel>>
    /\ UNCHANGED <<inventoryRead, sinceCancel>>

\* ------------------------------------------------------------------- Next
Next ==
    \/ \E connected \in BOOLEAN : initializeMatchmakingStore(connected)
    \/ onLostEvent
    \/ onCancelledEvent
    \/ onFoundEvent
    \/ onQueuesJoinedEvent
    \/ \E battle \in ServerBattles \cup {NoBattle} : onUserSelfEvent(battle)
    \/ \E i \in 1..MaxEpisodes : SimulateTick(i)
    \/ \E j \in 1..MaxEpisodes, progress \in ReportValues :
           DownloadProgressEvent(j, progress)
    \/ \E i \in 1..MaxEpisodes : DownloadResolved(i)
    \/ \E i \in 1..MaxEpisodes : DownloadRejected(i)
    \/ SendListRequest
    \/ \E c \in 1..MaxListCalls, list \in ListResponses, inv \in Inventories :
           ListRequestResolved(c, list, inv)
    \/ \E c \in 1..MaxListCalls : ListRequestRejected(c)
    \/ \E c \in 1..MaxListCalls, id \in PlaylistIds, inv \in Inventories :
           MapsQueryResolved(c, id, inv)
    \/ \E c \in 1..MaxListCalls, id \in PlaylistIds : MapsQueryRejected(c, id)
    \/ SendQueueRequest
    \/ QueueRequestResolved
    \/ QueueRequestRejected
    \/ SendCancelRequest
    \/ CancelRequestResolved
    \/ CancelRequestRejected
    \/ SendReadyRequest
    \/ ReadyRequestResolved
    \/ ReadyRequestRejected

Spec == Init /\ [][Next]_vars

\* The session: the server events, the ready and cancel commands and the
\* downloads they lead to, without the playlist refresh and the queue command.
NextSession ==
    \/ \E connected \in BOOLEAN : initializeMatchmakingStore(connected)
    \/ onLostEvent
    \/ onCancelledEvent
    \/ onFoundEvent
    \/ onQueuesJoinedEvent
    \/ \E battle \in ServerBattles \cup {NoBattle} : onUserSelfEvent(battle)
    \/ \E i \in 1..MaxEpisodes : SimulateTick(i)
    \/ \E j \in 1..MaxEpisodes, progress \in ReportValues :
           DownloadProgressEvent(j, progress)
    \/ \E i \in 1..MaxEpisodes : DownloadResolved(i)
    \/ \E i \in 1..MaxEpisodes : DownloadRejected(i)
    \/ SendCancelRequest
    \/ CancelRequestResolved
    \/ CancelRequestRejected
    \/ SendReadyRequest
    \/ ReadyRequestResolved
    \/ ReadyRequestRejected

SpecSession == Init /\ [][NextSession]_vars

\* The queue command: the refresh it asks for when the selected queue has no
\* record, the request, and the download it starts, without the progress
\* reports of the real downloads.
NextQueue ==
    \/ SendQueueRequest
    \/ QueueRequestResolved
    \/ QueueRequestRejected
    \/ \E c \in 1..MaxListCalls, list \in ListResponses, inv \in Inventories :
           ListRequestResolved(c, list, inv)
    \/ \E c \in 1..MaxListCalls, id \in PlaylistIds, inv \in Inventories :
           MapsQueryResolved(c, id, inv)
    \/ \E i \in 1..MaxEpisodes : SimulateTick(i)
    \/ \E i \in 1..MaxEpisodes : DownloadResolved(i)
    \/ \E i \in 1..MaxEpisodes : DownloadRejected(i)

SpecQueue == Init /\ [][NextQueue]_vars

\* The playlist refresh alone: its callers other than the queue command, and
\* the answers of the server and of the map inventory.
NextRefresh ==
    \/ \E connected \in BOOLEAN : initializeMatchmakingStore(connected)
    \/ SendListRequest
    \/ \E c \in 1..MaxListCalls, list \in ListResponses, inv \in Inventories :
           ListRequestResolved(c, list, inv)
    \/ \E c \in 1..MaxListCalls : ListRequestRejected(c)
    \/ \E c \in 1..MaxListCalls, id \in PlaylistIds, inv \in Inventories :
           MapsQueryResolved(c, id, inv)
    \/ \E c \in 1..MaxListCalls, id \in PlaylistIds : MapsQueryRejected(c, id)

SpecRefresh == Init /\ [][NextRefresh]_vars

\* The commands and the server events that write status: the queue, ready and
\* cancel commands with the answers to their requests, the events, and the
\* refresh the queue command needs, without the steps of the downloads. The
\* inventory is one in which nothing has to be downloaded.
NextCommands ==
    \/ \E connected \in BOOLEAN : initializeMatchmakingStore(connected)
    \/ onLostEvent
    \/ onCancelledEvent
    \/ onFoundEvent
    \/ onQueuesJoinedEvent
    \/ SendQueueRequest
    \/ QueueRequestResolved
    \/ QueueRequestRejected
    \/ SendCancelRequest
    \/ CancelRequestResolved
    \/ CancelRequestRejected
    \/ SendReadyRequest
    \/ ReadyRequestResolved
    \/ ReadyRequestRejected
    \/ \E c \in 1..MaxListCalls, list \in ListResponses :
           ListRequestResolved(c, list, EverythingInstalled)
    \/ \E c \in 1..MaxListCalls, id \in PlaylistIds :
           MapsQueryResolved(c, id, EverythingInstalled)

SpecCommands == Init /\ [][NextCommands]_vars

\* ------------------------------------------------------------- the claims
ActiveEpisodes == {i \in DOMAIN episodes : Active(episodes[i])}
\* A step starts an episode.
EpisodeStarts == Len(episodes') > Len(episodes)

\* C1: while status is MatchAccepted, a user/self event that carries the
\* assignment an earlier user/self event already started an episode for does
\* not start another episode for it.
C1_SameAssignmentStartsOnce ==
    [][(/\ status = "MatchAccepted"
        /\ \E i \in DOMAIN episodes : /\ episodes[i].origin = "onUserSelfEvent"
                                      /\ episodes[i].battle = currentBattle)
       => ~(/\ EpisodeStarts
            /\ episodes'[Len(episodes')].origin = "onUserSelfEvent"
            /\ episodes'[Len(episodes')].battle = currentBattle)]_vars

\* C2: at most one download episode is active in every reachable state.
C2_OneActiveEpisode == Cardinality(ActiveEpisodes) <= 1

\* C3: currentBattle is defined and downloadProgress is non-zero only while
\* status is MatchAccepted or during the episode MatchAccepted triggered, and
\* both are cleared whenever status is Idle.
C3_AssignmentOnlyWhileAccepted ==
    /\ (currentBattle # NoBattle \/ downloadProgress # ZeroProgress)
         => \/ status = "MatchAccepted"
            \/ \E i \in ActiveEpisodes : episodes[i].origin = "onUserSelfEvent"
    /\ status = "Idle" => (currentBattle = NoBattle /\ downloadProgress = ZeroProgress)

\* C4: only a user/self event that carries a battle while status is
\* MatchAccepted sets currentBattle and starts an episode; no user command does.
C4_OnlyUserSelfAssigns ==
    /\ currentBattle \in ServerBattles \cup {NoBattle}
    /\ \A i \in DOMAIN episodes : episodes[i].origin = "onUserSelfEvent"

\* C5: while an episode is active, no step that is not the start of an episode
\* decreases downloadProgress.map, .engine or .game.
C5_ProgressNeverDecreases ==
    [][(ActiveEpisodes # {} /\ ~EpisodeStarts)
       => /\ downloadProgress'.map >= downloadProgress.map
          /\ downloadProgress'.engine >= downloadProgress.engine
          /\ downloadProgress'.game >= downloadProgress.game]_vars

\* C6: an episode gives the success alert if and only if none of its
\* downloads failed and downloadProgress was {1, 1, 1} when it gave the alert.
C6_SuccessIffAllComplete ==
    \A i \in DOMAIN episodes :
        /\ "success" \in episodes[i].alerts
             => (episodes[i].failed = "none" /\ episodes[i].alertProgress = FullProgress)
        /\ (episodes[i].pc = "done" /\ episodes[i].failed = "none")
             => "success" \in episodes[i].alerts

\* C7: an episode one of whose downloads failed gave the failure alert and
\* not the success alert, whichever download failed.
C7_FailureNeverSuccess ==
    \A i \in DOMAIN episodes :
        episodes[i].failed # "none" => episodes[i].alerts = {"failure"}

\* An episode whose last download failed after the other two had reached 1.
C7_Witness ==
    \E i \in DOMAIN episodes :
        /\ episodes[i].failed = "game"
        /\ episodes[i].alertProgress.map = 100
        /\ episodes[i].alertProgress.engine = 100

\* The downloads end: the interval of simulateProgress keeps firing, and every
\* download that is awaited resolves or rejects.
DownloadFairness ==
    \A i \in 1..MaxEpisodes :
        /\ WF_vars(SimulateTick(i))
        /\ WF_vars(DownloadResolved(i) \/ DownloadRejected(i))

FairSession == SpecSession /\ DownloadFairness

\* C8: every episode that starts exits in the end, and the step in which an
\* episode exits leaves isDownloadingContent false.
C8_EpisodeExitsFlagFalse ==
    /\ \A i \in 1..MaxEpisodes :
           [](i \in DOMAIN episodes
                => <>(i \in DOMAIN episodes /\ episodes[i].pc = "done"))
    /\ [][\A i \in DOMAIN episodes :
              (Active(episodes[i]) /\ ~Active(episodes'[i])) => ~isDownloadingContent']_vars

\* Every episode the bound allows has started and exited, one by success and
\* one by failure.
C8_Witness ==
    /\ Len(episodes) = MaxEpisodes
    /\ ActiveEpisodes = {}
    /\ \E i, j \in DOMAIN episodes :
           "success" \in episodes[i].alerts /\ "failure" \in episodes[j].alerts
    /\ ~isDownloadingContent

\* A refresh is over when its request is answered and its callbacks have ended.
RefreshesOver ==
    /\ Len(listCalls) > 0
    /\ \A c \in DOMAIN listCalls : listCalls[c].phase = "done"

\* C9: once the refreshes are over, every key of downloadsRequired is the id
\* of a playlist of playlists.
C9_NoStaleRecords ==
    RefreshesOver => DOMAIN downloadsRequired \subseteq SeqToSet(playlists)

\* C10: in no state does playlists hold a playlist downloadsRequired has no
\* record for.
C10_RecordsPublishedWhole ==
    SeqToSet(playlists) \subseteq DOMAIN downloadsRequired

\* The ids whose last inventory query was answered, and those whose last
\* inventory query failed.
QueryAnswered == {id \in DOMAIN inventoryRead : inventoryRead[id].answered}
QueryFailed == {id \in DOMAIN inventoryRead : ~inventoryRead[id].answered}

\* None of the acceptable items is installed.
NoneInstalled(items, installed) == \A i \in 1..Len(items) : items[i] \notin installed
InstalledMaps(dbMaps) == {m \in DOMAIN dbMaps : dbMaps[m] = "installed"}

\* C11: for every playlist and each asset type whose acceptable list is not
\* empty, the recorded flag is true if and only if none of the acceptable
\* items of that type is installed in the inventory the record was computed
\* from.
C11_NeededIffNoneInstalled ==
    \A id \in QueryAnswered \cap DOMAIN downloadsRequired :
        LET q == PlaylistDef(id)
            inv == inventoryRead[id].inv
            rec == downloadsRequired[id]
        IN /\ Len(q.maps) > 0
                => (rec.mapsNeeded <=> NoneInstalled(q.maps, InstalledMaps(inv.db)))
           /\ Len(q.engines) > 0
                => (rec.engineNeeded <=> NoneInstalled(q.engines, inv.engines))
           /\ Len(q.games) > 0
                => (rec.gameNeeded <=> NoneInstalled(q.games, inv.games))

\* C12: a playlist whose inventory query failed has a record with mapsNeeded
\* true; and when the only refresh there was is over, queueError is unset and
\* every other playlist of the list has its record.
C12_QueryFailureRecordsNeeded ==
    \A id \in QueryFailed :
        /\ id \in DOMAIN downloadsRequired /\ downloadsRequired[id].mapsNeeded
        /\ (Len(listCalls) = 1 /\ RefreshesOver)
             => /\ queueError = "undefined"
                /\ (SeqToSet(playlists) \ QueryFailed) \subseteq DOMAIN downloadsRequired

\* C13: the step in which sendCancelRequest runs leaves status Idle, whatever
\* status was, and the step in which the cancel request is answered, well or
\* not, leaves status as it was.
C13_CancelSetsIdle ==
    [][/\ pendingCancel' > pendingCancel => status' = "Idle"
       /\ pendingCancel' < pendingCancel => status' = status]_vars

\* The cancel command ran while a queue request was out, its request failed,
\* and status is Idle.
C13_Witness ==
    /\ sinceCancel
    /\ pendingQueue > 0
    /\ pendingCancel = 0
    /\ errorMessage = "Error with matchmaking/cancel"
    /\ status = "Idle"

\* C14: the step that handles the failure of the queue request or of the
\* ready request leaves status Idle and errorMessage set, whatever status was
\* before it.
C14_FailedRequestEndsIdle ==
    [][(QueueRequestRejected \/ ReadyRequestRejected)
       => (status' = "Idle" /\ errorMessage' # "null")]_vars

\* The queue request failed while a ready request was out.
C14_Witness ==
    /\ errorMessage = "Error with matchmaking/queue"
    /\ status = "Idle"
    /\ pendingQueue = 0
    /\ pendingReady > 0

\* C15: when sendQueueRequest runs while downloadsRequired has no record for
\* selectedQueue, it calls sendListRequest, sends no queue request, starts no
\* episode and leaves status and errorMessage as they were; and no later step
\* of the refresh it asked for sends a request, starts an episode or writes
\* status.
C15_NoRecordAbortsJoin ==
    [][/\ (SendQueueRequest /\ selectedQueue \notin DOMAIN downloadsRequired)
          => /\ Len(listCalls') = Len(listCalls) + 1
             /\ listCalls'[Len(listCalls')].phase = "awaitList"
             /\ pendingQueue' = pendingQueue
             /\ episodes' = episodes
             /\ status' = status
             /\ errorMessage' = errorMessage
       /\ \A c \in DOMAIN listCalls :
              (listCalls[c].caller = "queue" /\ listCalls'[c] # listCalls[c])
              => /\ pendingQueue' = pendingQueue
                 /\ episodes' = episodes
                 /\ status' = status]_vars

\* The refresh the queue command asked for is out, status is not Idle, and
\* there is no queue request and no episode.
C15_Witness ==
    /\ \E c \in DOMAIN listCalls :
           listCalls[c].caller = "queue" /\ listCalls[c].phase = "awaitList"
    /\ status = "MatchFound"
    /\ ~sinceCancel
    /\ pendingQueue = 0
    /\ episodes = <<>>
    /\ errorMessage = "null"

\* A step of an episode that is not its start: a tick, a progress report, the
\* end of a download, the exit.
EpisodeStep ==
    /\ ~EpisodeStarts
    /\ \/ episodes' # episodes
       \/ downloadProgress' # downloadProgress
       \/ isDownloadingContent' # isDownloadingContent

\* C16: no step of a download episode after its start changes status, on
\* success or on failure; a failed episode does not move the session to Idle.
C16_EpisodeNeverWritesStatus ==
    [][EpisodeStep => status' = status]_vars

\* An episode has failed and exited, and the session is where the ready
\* command left it.
C16_Witness ==
    /\ \E i \in DOMAIN episodes :
           episodes[i].pc = "done" /\ episodes[i].failed # "none"
    /\ ActiveEpisodes = {}
    /\ status = "MatchAccepted"
    /\ ~isDownloadingContent

\* The changes of status the state table has.
TableTransitions ==
    {<<"Idle", "JoinRequested">>, <<"JoinRequested", "Searching">>,
     <<"JoinRequested", "Idle">>, <<"Searching", "MatchFound">>,
     <<"MatchFound", "Idle">>, <<"MatchFound", "MatchAccepted">>,
     <<"MatchAccepted", "Idle">>}
    \cup {<<s, "Idle">> : s \in MatchmakingStatus \ {"Idle"}}

\* The queue command issued from another status than Idle, or the ready
\* command from another status than MatchFound.
CommandOutOfTurn ==
    \/ pendingQueue' > pendingQueue /\ status # "Idle"
    \/ pendingReady' > pendingReady /\ status # "MatchFound"

\* C17: every step that changes status takes it along one of the transitions
\* of the state table, under any interleaving of the server events, the
\* answers to the requests, the cancel command, and the queue and ready
\* commands issued from the states the table lists for them.
C17_OnlyTableTransitions ==
    [][(status' # status /\ ~CommandOutOfTurn)
       => <<status, status'>> \in TableTransitions]_vars

\* C18: isDownloadingContent is true in every state in which an episode has
\* started and not exited.
C18_FlagWhileActive ==
    ActiveEpisodes # {} => isDownloadingContent

\* C19: while the cancel command has run and no user command and no server
\* event has followed it, status is Idle.
C19_IdleAfterCancel ==
    sinceCancel => status = "Idle"

\* C20: the event handlers are registered at most once and at most one list
\* request is sent by initializeMatchmakingStore.
C20_InitializedOnce ==
    /\ handlersRegistered <= 1
    /\ Cardinality({c \in DOMAIN listCalls : listCalls[c].caller = "init"}) <= 1

====
